---- MODULE Spec2Model ----
(***************************************************************************)
(* Starfield (src/src/main.rs): a population of stars that accelerate      *)
(* radially away from the origin and are recycled when they leave the      *)
(* space extent.  One frame of the engine runs the time update and then    *)
(* the three systems reset_stars (PreUpdate), calculate_velocity (Update)  *)
(* and move_stars (PostUpdate).                                            *)
(*                                                                         *)
(* Numbers.  The f32 values of the program are modelled by exact integers  *)
(* plus the not-a-number value.  A Vec3 is a record [nan, x, y, z]; in     *)
(* every place where the program produces a NaN (the normalisation of the  *)
(* zero vector and everything computed from it) all three components are   *)
(* NaN together, so one flag per vector is enough.  The length of a vector *)
(* is kept as the exact surd coef * sqrt(rad), and a normalised vector as  *)
(* vec / sqrt(rad), so that no rounding is introduced by the model.        *)
(***************************************************************************)
EXTENDS Integers, FiniteSets

\* ---- program constants (main.rs:13-16) ----
ACCELERATION_MULTIPLIER == 1
SPACE_EXTENT == 1000
MIN_SPEED == 10
MAX_SPEED == 80

\* ---- bounds of the model ----
\* NUM_STARS is 1300 in the program; the model runs a scaled-down population
\* (setup's loop runs over 0 ..= NUM_STARS).
NUM_STARS == 0
\* delta_seconds is drawn from 0 .. MaxDt (whole seconds).
MaxDt == 1
\* The positive constant below which dt never falls in the frame loop LiveSpec.
MinLiveDt == 1

VARIABLES
    star,           \* entity id -> Star component [velocity, base_speed]
    transform,      \* entity id -> Transform.translation (a Vec3)
    delta_seconds,  \* Time::delta_seconds() of the current frame
    stage,          \* the stage the schedule runs next
    relocated       \* the entities reset_stars' filter selected in this frame

vars == <<star, transform, delta_seconds, stage, relocated>>

\* ---- ranges and sampling ----
RangeInclusive(lo, hi) == [start |-> lo, end |-> hi]

MOVE_SPEED_RANGE_from_zero == RangeInclusive(0, MAX_SPEED)
MOVE_SPEED_RANGE == RangeInclusive(MIN_SPEED, MAX_SPEED)

space_extent == RangeInclusive(-SPACE_EXTENT, SPACE_EXTENT)

half_space_extent_full == RangeInclusive(-SPACE_EXTENT, SPACE_EXTENT)
half_space_extent ==
    LET half_extent == SPACE_EXTENT \div 2
    IN  RangeInclusive(-half_extent, half_extent)

\* RangeInclusive::contains on an f32: every comparison with NaN is false.
contains(range, isNaN, v) == ~isNaN /\ range.start <= v /\ v <= range.end

\* The values the random generator is let to produce in the model, for a
\* coordinate and for a speed; rand_in_range keeps those inside its range.
CoordSamples == {-SPACE_EXTENT, 0, 80}
SpeedSamples == {0, MIN_SPEED, MAX_SPEED}

\* rand_in_range: any value of the range (here: any candidate value in it).
rand_in_range(range, candidates) ==
    {v \in candidates : range.start <= v /\ v <= range.end}

\* ---- Vec3 ----
Vec3new(x, y, z) == [nan |-> FALSE, x |-> x, y |-> y, z |-> z]
Vec3default == Vec3new(0, 0, 0)
NaNVec == [nan |-> TRUE, x |-> 0, y |-> 0, z |-> 0]

\* Vec3 * f32
VecScale(v, k) == IF v.nan THEN NaNVec ELSE Vec3new(v.x * k, v.y * k, v.z * k)
\* Vec3 + Vec3
VecAdd(a, b) ==
    IF a.nan \/ b.nan THEN NaNVec ELSE Vec3new(a.x + b.x, a.y + b.y, a.z + b.z)

\* Vec3::length: sqrt(x*x + y*y + z*z), kept exact as coef * sqrt(rad).
length(v) == [coef |-> 1, rad |-> v.x * v.x + v.y * v.y + v.z * v.z]
\* f32 * f32 where the left operand is a length
SurdScale(s, k) == [coef |-> s.coef * k, rad |-> s.rad]

\* Vec3::normalize: self * (1.0 / self.length()).  For the zero vector this
\* is 0 * infinity, which is NaN in every component.
normalize(v) ==
    IF v.nan \/ length(v).rad = 0
    THEN [nan |-> TRUE, vec |-> v, rad |-> 0]
    ELSE [nan |-> FALSE, vec |-> v, rad |-> length(v).rad]

\* (normalised vector) * (length-valued f32): (vec / sqrt(rad)) * (coef * sqrt(rad)).
DirTimes(dir, s) ==
    IF dir.nan \/ dir.rad # s.rad THEN NaNVec ELSE VecScale(dir.vec, s.coef)

\* ---- the systems, per entity ----
\* reset_stars' closure outside_extent (main.rs:120)
outside_extent_x_only(t) == ~contains(space_extent, t.nan, t.x)
outside_extent_strict(t) ==
    t.nan \/ ~(-SPACE_EXTENT < t.x /\ t.x < SPACE_EXTENT)
          \/ ~(-SPACE_EXTENT < t.y /\ t.y < SPACE_EXTENT)
outside_extent(t) ==
    ~contains(space_extent, t.nan, t.x) \/ ~contains(space_extent, t.nan, t.y)

\* The body of calculate_velocity's loop: the new velocity of one star.
velocity_blended(s, t, dt) ==
    VecAdd(s.velocity, VecScale(Vec3new(t.x, t.y, 0), ACCELERATION_MULTIPLIER * dt * s.base_speed))
velocity_zero(s, t, dt) == Vec3default
new_velocity(s, t, dt) ==
    LET xy_coords == Vec3new(t.x, t.y, 0)
        movement_direction == normalize(xy_coords)
        acceleration == SurdScale(SurdScale(length(xy_coords), ACCELERATION_MULTIPLIER), dt)
    IN  IF t.nan THEN NaNVec
        ELSE VecScale(DirTimes(movement_direction, acceleration), s.base_speed)

\* The body of move_stars' loop: the new translation of one star.
new_translation(s, t, dt) == VecAdd(t, VecScale(s.velocity, dt))

\* The entities setup spawns: one per iteration of `for _ in 0..=NUM_STARS`.
StarIds == 0 .. NUM_STARS

\* The order of the stages within a frame (CoreStage::First runs the engine's
\* time update; the three systems are registered at main.rs:24-26).
StageAfterSwapped(s) ==
    CASE s = "First" -> "PreUpdate"
      [] s = "PreUpdate" -> "PostUpdate"
      [] s = "PostUpdate" -> "Update"
      [] s = "Update" -> "First"
StageAfter(s) ==
    CASE s = "First" -> "PreUpdate"
      [] s = "PreUpdate" -> "Update"
      [] s = "Update" -> "PostUpdate"
      [] s = "PostUpdate" -> "First"

\* ---- initial state: the App before the startup system has run ----
Init ==
    /\ star = << >>
    /\ transform = << >>
    /\ delta_seconds = 0
    /\ stage = "Startup"
    /\ relocated = {}

\* setup (startup system): spawns the stars.
setup ==
    /\ stage = "Startup"
    /\ \E xs \in [StarIds -> rand_in_range(space_extent, CoordSamples)],
          ys \in [StarIds -> rand_in_range(space_extent, CoordSamples)],
          zs \in [StarIds -> rand_in_range(half_space_extent, CoordSamples)],
          bs \in [StarIds -> rand_in_range(MOVE_SPEED_RANGE, SpeedSamples)] :
            /\ transform' = [i \in StarIds |-> Vec3new(xs[i], ys[i], zs[i])]
            /\ star' = [i \in StarIds |->
                          [velocity |-> Vec3default, base_speed |-> bs[i]]]
    /\ stage' = "First"
    /\ UNCHANGED <<delta_seconds, relocated>>

\* The engine's time update at the start of a frame: dt is any non-negative value.
time_update ==
    /\ stage = "First"
    /\ \E dt \in 0 .. MaxDt : delta_seconds' = dt
    /\ stage' = StageAfter(stage)
    /\ UNCHANGED <<star, transform, relocated>>

\* The same with dt bounded below by a positive constant.
time_update_positive ==
    /\ stage = "First"
    /\ \E dt \in MinLiveDt .. MaxDt : delta_seconds' = dt
    /\ stage' = StageAfter(stage)
    /\ UNCHANGED <<star, transform, relocated>>

\* reset_stars (PreUpdate)
reset_stars ==
    /\ stage = "PreUpdate"
    /\ LET out == {i \in DOMAIN transform : outside_extent(transform[i])}
       IN  /\ relocated' = out
           /\ \E xs \in [out -> rand_in_range(half_space_extent, CoordSamples)],
                 ys \in [out -> rand_in_range(half_space_extent, CoordSamples)],
                 zs \in [out -> rand_in_range(half_space_extent, CoordSamples)],
                 bs \in [out -> rand_in_range(MOVE_SPEED_RANGE, SpeedSamples)] :
                   /\ transform' = [i \in DOMAIN transform |->
                         IF i \in out THEN Vec3new(xs[i], ys[i], zs[i])
                                      ELSE transform[i]]
                   /\ star' = [i \in DOMAIN star |->
                         IF i \in out THEN [star[i] EXCEPT !.base_speed = bs[i]]
                                      ELSE star[i]]
    /\ stage' = StageAfter(stage)
    /\ UNCHANGED delta_seconds

\* calculate_velocity (Update)
calculate_velocity ==
    /\ stage = "Update"
    /\ star' = [i \in DOMAIN star |->
          [star[i] EXCEPT !.velocity = new_velocity(star[i], transform[i], delta_seconds)]]
    /\ stage' = StageAfter(stage)
    /\ UNCHANGED <<transform, delta_seconds, relocated>>

\* move_stars (PostUpdate)
move_stars ==
    /\ stage = "PostUpdate"
    /\ transform' = [i \in DOMAIN transform |->
          new_translation(star[i], transform[i], delta_seconds)]
    /\ stage' = StageAfter(stage)
    /\ UNCHANGED <<star, delta_seconds, relocated>>

Next ==
    \/ setup
    \/ time_update
    \/ reset_stars
    \/ calculate_velocity
    \/ move_stars

Spec == Init /\ [][Next]_vars

\* The frame loop with every dt >= MinLiveDt; the engine runs frames until the process stops.
LiveNext ==
    \/ setup
    \/ time_update_positive
    \/ reset_stars
    \/ calculate_velocity
    \/ move_stars

LiveSpec == Init /\ [][LiveNext]_vars /\ WF_vars(LiveNext)

\* ---- helpers of the properties (written from the claims, not from the actions) ----
InClosed(lo, v, hi) == lo <= v /\ v <= hi
\* x or y is not in [-E, E]; NaN is in no interval.
OutsideXY(t) ==
    t.nan \/ ~InClosed(-SPACE_EXTENT, t.x, SPACE_EXTENT)
          \/ ~InClosed(-SPACE_EXTENT, t.y, SPACE_EXTENT)
AtOriginXY(t) == ~t.nan /\ t.x = 0 /\ t.y = 0
InHalfExtent(t) ==
    /\ ~t.nan
    /\ InClosed(-(SPACE_EXTENT \div 2), t.x, SPACE_EXTENT \div 2)
    /\ InClosed(-(SPACE_EXTENT \div 2), t.y, SPACE_EXTENT \div 2)
    /\ InClosed(-(SPACE_EXTENT \div 2), t.z, SPACE_EXTENT \div 2)
SpeedInRange(s) == InClosed(MIN_SPEED, s.base_speed, MAX_SPEED)
Started == stage # "Startup"
\* stage names the stage that runs next: "Update" is right after reset_stars,
\* "PostUpdate" right after calculate_velocity, "First" right after move_stars.
AfterReset == stage = "Update"
AfterVelocity == stage = "PostUpdate"
EndOfFrame == stage = "First"

\* C1: after startup the number of stars is exactly NUM_STARS, in every state.
C1_PopulationIsNumStars ==
    Started => Cardinality(DOMAIN star) = NUM_STARS /\ DOMAIN transform = DOMAIN star

\* C2: after calculate_velocity a star exactly at the origin (x = 0, y = 0) has
\* the zero vector as velocity, and no NaN is stored.
C2_OriginVelocityZero ==
    AfterVelocity =>
        \A i \in DOMAIN star :
            AtOriginXY(transform[i]) => star[i].velocity = Vec3default

\* C3 (as stated): right after reset_stars ALL stars have x, y, z within
\* [-E/2, E/2] and base_speed within [MIN_SPEED, MAX_SPEED].
C3_AllStarsInHalfExtent ==
    AfterReset =>
        \A i \in DOMAIN star : InHalfExtent(transform[i]) /\ SpeedInRange(star[i])

\* C3 (amended): right after reset_stars every star has x and y within [-E, E],
\* z within [-E/2, E/2] and base_speed within [MIN_SPEED, MAX_SPEED]; x and y are
\* within [-E/2, E/2] for the stars the pass relocated.
C3_AllStarsInExtent ==
    AfterReset =>
        \A i \in DOMAIN star :
            /\ ~OutsideXY(transform[i])
            /\ InClosed(-(SPACE_EXTENT \div 2), transform[i].z, SPACE_EXTENT \div 2)
            /\ SpeedInRange(star[i])
            /\ i \in relocated => InHalfExtent(transform[i])

C3_Witness ==
    /\ AfterReset
    /\ \E i \in DOMAIN star :
          /\ i \notin relocated
          /\ ~InHalfExtent(transform[i])
          /\ star[i].velocity.x > 0

\* C4: the stages of a frame run once each in the order reset_stars,
\* calculate_velocity, move_stars, and move_stars integrates the velocity that
\* calculate_velocity derived in the same frame from the position the star has
\* after reset_stars (for a star that is not at the origin):
\* position' = position + (x, y, 0) * ACCEL * dt * base_speed * dt.
C4_SameFrameVelocity ==
    [][ /\ stage = "First" => stage' = "PreUpdate"
        /\ stage = "PreUpdate" => stage' = "Update"
        /\ stage = "Update" => stage' = "PostUpdate"
        /\ stage = "PostUpdate" =>
             /\ stage' = "First"
             /\ \A i \in DOMAIN star :
                  LET t == transform[i]
                      k == ACCELERATION_MULTIPLIER * delta_seconds * star[i].base_speed
                  IN  (~t.nan /\ ~AtOriginXY(t)) =>
                        /\ star[i].velocity = Vec3new(t.x * k, t.y * k, 0)
                        /\ transform'[i] =
                             Vec3new(t.x + t.x * k * delta_seconds,
                                     t.y + t.y * k * delta_seconds, t.z)
      ]_vars

C4_Witness ==
    /\ EndOfFrame
    /\ delta_seconds > 0
    /\ \E i \in relocated :
          /\ ~transform[i].nan
          /\ transform[i].x > MAX_SPEED
          /\ star[i].velocity.x > 0

\* C5: a star that is outside the extent at the end of a frame is inside it at
\* the end of the next frame (never outside at the end of two consecutive frames).
\* relocated holds the stars that were outside at the end of the previous frame.
C5_NeverOutsideTwoFrames ==
    EndOfFrame => \A i \in relocated : ~OutsideXY(transform[i])

\* C6: after calculate_velocity the velocity of a star with (x, y) # (0, 0) is
\* k * (x, y, 0) with k = ACCEL * dt * base_speed >= 0, i.e. the unit vector
\* (x, y, 0) / |(x, y)| scaled by |(x, y)| * ACCEL * dt * base_speed; it is a
\* function of position, base_speed and dt alone.
C6_RadialVelocity ==
    AfterVelocity =>
        \A i \in DOMAIN star :
            LET t == transform[i]
                v == star[i].velocity
                k == ACCELERATION_MULTIPLIER * delta_seconds * star[i].base_speed
            IN  (~t.nan /\ ~AtOriginXY(t)) =>
                  /\ ~v.nan
                  /\ k >= 0
                  /\ v.z = 0
                  /\ t.x * v.y - t.y * v.x = 0
                  /\ t.x * v.x + t.y * v.y >= 0
                  /\ v.x = k * t.x /\ v.y = k * t.y

C6_Witness ==
    /\ AfterVelocity
    /\ \E i \in relocated :
          /\ ~transform[i].nan
          /\ transform[i].x # 0 /\ transform[i].y # 0
          /\ star[i].base_speed = MAX_SPEED
          /\ star[i].velocity.x # 0 /\ star[i].velocity.y # 0

\* C7: reset_stars relocates exactly the stars whose x or y is not in the closed
\* interval [-E, E]; it leaves position and base_speed of every other star, and
\* the velocity of every star, unchanged.
C7_ResetOnlyOutside ==
    [][ stage = "PreUpdate" =>
          \A i \in DOMAIN star :
             /\ star'[i].velocity = star[i].velocity
             /\ ~OutsideXY(transform[i]) =>
                   /\ transform'[i] = transform[i]
                   /\ star'[i].base_speed = star[i].base_speed
             /\ OutsideXY(transform[i]) => transform'[i] # transform[i]
             /\ OutsideXY(transform[i]) <=> i \in relocated'
      ]_vars

C7_Witness ==
    /\ AfterReset
    /\ \E i \in DOMAIN star :
          /\ i \notin relocated
          /\ transform[i].x = -SPACE_EXTENT
          /\ transform[i].y = 0
          /\ star[i].base_speed = MAX_SPEED

\* C8: a star that is outside the extent before reset_stars has x, y, z within
\* [-E/2, E/2] and base_speed within [MIN_SPEED, MAX_SPEED] after it.
C8_OutsideStarsResampled ==
    [][ stage = "PreUpdate" =>
          \A i \in DOMAIN star :
             OutsideXY(transform[i]) =>
                InHalfExtent(transform'[i]) /\ SpeedInRange(star'[i])
      ]_vars

C8_Witness ==
    /\ AfterReset
    /\ \E i \in relocated :
          /\ InHalfExtent(transform[i])
          /\ transform[i].x # 0
          /\ ~star[i].velocity.nan /\ star[i].velocity.x > SPACE_EXTENT

\* C9: in every reachable state base_speed of every star is within
\* [MIN_SPEED, MAX_SPEED].
C9_BaseSpeedInRange ==
    \A i \in DOMAIN star : SpeedInRange(star[i])

C9_Witness ==
    /\ EndOfFrame
    /\ \E i \in relocated :
          star[i].base_speed = MAX_SPEED /\ star[i].velocity.x > 0

\* C10: with dt >= MinLiveDt > 0 in every frame, move_stars multiplies x and y of a star
\* with (x, y) # (0, 0) by 1 + ACCEL * base_speed * dt^2 > 1 and leaves z, and
\* every star is relocated by reset_stars again and again.
C10_Recycling ==
    /\ [][ stage = "PostUpdate" =>
             \A i \in DOMAIN star :
                LET t == transform[i]
                    f == 1 + ACCELERATION_MULTIPLIER * star[i].base_speed
                               * delta_seconds * delta_seconds
                IN  (~t.nan /\ ~AtOriginXY(t)) =>
                       /\ f > 1
                       /\ transform'[i] = Vec3new(t.x * f, t.y * f, t.z)
         ]_vars
    /\ \A i \in StarIds : []<>(AfterReset /\ i \in relocated)

\* A star that moved outward for a frame and stayed inside, left the extent in
\* a later frame and has now been relocated.
C10_Witness ==
    /\ AfterReset
    /\ \E i \in relocated :
          /\ ~star[i].velocity.nan
          /\ star[i].velocity.x > MAX_SPEED * MAX_SPEED * MinLiveDt

====
